---- MODULE Spec2Model ----
(***************************************************************************)
(* Model of the DataFlash-log to TXT/NetCDF converter.                     *)
(*                                                                         *)
(* Two variants of the program are modelled side by side:                  *)
(*   "default"  : BinToNETCDF.py  (decoder wall-clock timestamps)          *)
(*   "baseline" : baseline.py     (satellite-time timestamps, range check) *)
(*                                                                         *)
(* Floating point values are modelled as exact rationals [n, d] with an    *)
(* extra NaN value; Python's None (a non-numeric value) is a further       *)
(* value on which arithmetic raises TypeError.                             *)
(***************************************************************************)
EXTENDS Integers, Sequences, FiniteSets, TLC

VARIABLES
    variant,          \* which program file runs: "default" or "baseline"
    stream,           \* the decoded record sequence the decoder hands out (mlog)
    utcoffset,        \* the host's local-time offset from UTC, seconds (environment)
    pc,               \* position of the run
    idx,              \* number of records recv_match has handed out in the current pass
    timezone_offset,  \* baseline.py: timezone_offset
    first_timestamp,  \* baseline.py: first_timestamp (None until a Position sample is kept)
    GPS_data, IMU_data, BARO_data, TEMP_data, HUM_data,   \* the five channels
    out,              \* the column dictionary out / output_data
    ret,              \* what process_dataflash_log returned: "pending", "None", "DataFrame", "raised"
    warnings,         \* number of "Warning: Skipping message" lines printed
    errors,           \* set of error reports printed
    save_called,      \* whether the main flow called save_outputs
    txt_file,         \* state of <base>.txt: "absent", "partial", "written"
    nc_file,          \* state of <base>.nc
    status            \* final status line of the main flow

vars == <<variant, stream, utcoffset, pc, idx, timezone_offset, first_timestamp,
          GPS_data, IMU_data, BARO_data, TEMP_data, HUM_data, out, ret,
          warnings, errors, save_called, txt_file, nc_file, status>>

-----------------------------------------------------------------------------
(* Numbers *)

Abs(x) == IF x < 0 THEN -x ELSE x

RECURSIVE GCD(_, _)
GCD(a, b) == IF b = 0 THEN a ELSE GCD(b, a % b)

\* np.nan
NaN == [n |-> 0, d |-> 0]

\* Python None, or any other non-numeric field value
NoneVal == [n |-> 0, d |-> -1]

\* the rational n/d in lowest terms, d > 0
Rat(n, d) ==
    LET g == GCD(Abs(n), Abs(d))
        s == IF d < 0 THEN -1 ELSE 1
    IN  [n |-> s * (n \div g), d |-> s * (d \div g)]

Num(k) == [n |-> k, d |-> 1]

IsNaN(x) == x.d = 0
IsNone(x) == x.d < 0
IsFinite(x) == x.d > 0

Add(a, b) == IF IsNaN(a) \/ IsNaN(b) THEN NaN
             ELSE Rat(a.n * b.d + b.n * a.d, a.d * b.d)

Sub(a, b) == IF IsNaN(a) \/ IsNaN(b) THEN NaN
             ELSE Rat(a.n * b.d - b.n * a.d, a.d * b.d)

DivInt(a, k) == IF IsNaN(a) THEN NaN ELSE Rat(a.n, a.d * k)

\* IEEE comparison: false as soon as one side is NaN
Less(a, b) == IsFinite(a) /\ IsFinite(b) /\ a.n * b.d < b.n * a.d
LessEq(a, b) == IsFinite(a) /\ IsFinite(b) /\ a.n * b.d <= b.n * a.d

\* np.floor of a finite value, as an integer
Floor(a) == a.n \div a.d

-----------------------------------------------------------------------------
(* Program constants *)

GPS_LEAP_SECONDS == 18
GPS_TO_UNIX_OFFSET == 315964800
SECONDS_PER_WEEK == 604800
FILTER_SIZE == 9

\* 273.15
KELVIN == Rat(27315, 100)

\* the Kelvin-detection threshold of the pressure branch
KELVIN_THRESHOLD == 200

-----------------------------------------------------------------------------
(* Decoded records: a type name and a map from attribute names to values *)

Msg(typ, a) == [typ |-> typ, a |-> a]

hasattr(m, f) == f \in DOMAIN m.a

getattr(m, f, default) == IF f \in DOMAIN m.a THEN m.a[f] ELSE default

\* Python truthiness of a field value: None and 0 are falsy, NaN is truthy
Truthy(x) == ~IsNone(x) /\ ~(IsFinite(x) /\ x.n = 0)

\* Python's  a or b
PyOr(a, b) == IF Truthy(a) THEN a ELSE b

-----------------------------------------------------------------------------
(* Helpers on sequences of numbers *)

RECURSIVE SumSeq(_)
SumSeq(s) == IF s = <<>> THEN Num(0) ELSE Add(Head(s), SumSeq(Tail(s)))

NotNaN(x) == ~IsNaN(x)

\* np.nanmean: the mean of the non-NaN entries, NaN when there is none
nanmean(vals) ==
    LET kept == SelectSeq(vals, NotNaN)
    IN  IF kept = <<>> THEN NaN ELSE DivInt(SumSeq(kept), Len(kept))

\* column c of a channel (a sequence of rows)
Column(data, c) == [i \in 1..Len(data) |-> data[i][c]]

\* storing a value into a float64 array cell: None becomes NaN
ToFloat(x) == IF IsNone(x) THEN NaN ELSE x

-----------------------------------------------------------------------------
(* Channel classifier.                                                     *)
(* The result is [ch, row]: ch is the channel the record is appended to,   *)
(* "drop" when the record is discarded, "raise" when handling it raises.   *)

Drop == [ch |-> "drop", row |-> <<>>]
Raise == [ch |-> "raise", row |-> <<>>]
Keep(ch, row) == [ch |-> ch, row |-> row]

\* [t - 273.15 for t in temps_k]
ToCelsius(temps_k) == [i \in 1..Len(temps_k) |-> Sub(temps_k[i], KELVIN)]

AnyNone(vals) == \E i \in 1..Len(vals) : IsNone(vals[i])

\* BinToNETCDF.py: p = getattr(msg, 'press_abs', None) or getattr(msg, 'Press', None)
PressureOf(m) == PyOr(getattr(m, "press_abs", NoneVal), getattr(m, "Press", NoneVal))

\* BinToNETCDF.py: t = getattr(msg, 'temperature', None) or getattr(msg, 'Temp', np.nan)
TemperatureOf(m) == PyOr(getattr(m, "temperature", NoneVal), getattr(m, "Temp", NaN))

\* BinToNETCDF.py: t_c = (t - 273.15) if t > 200 else t
KelvinToCelsius(t) == IF Less(Num(KELVIN_THRESHOLD), t) THEN Sub(t, KELVIN) ELSE t

\* BinToNETCDF.py, the pressure branch
ClassifyPressure(m, ts) ==
    LET p == PressureOf(m)
        t == TemperatureOf(m)
    IN  IF IsNone(p) THEN Drop
        ELSE IF IsNone(t) THEN Raise
        ELSE Keep("BARO", <<ts, p, KelvinToCelsius(t)>>)

\* BinToNETCDF.py, body of the collecting loop for one record
ClassifyDefault(m) ==
    LET ts == getattr(m, "_timestamp", NoneVal)
        t012 == <<getattr(m, " t0", NaN), getattr(m, " t1", NaN), getattr(m, " t2", NaN)>>
        rh012 == <<getattr(m, " rh0", NaN), getattr(m, " rh1", NaN), getattr(m, " rh2", NaN)>>
    IN  IF IsNone(ts) THEN Drop
        ELSE IF m.typ = "GPS" /\ hasattr(m, "Lat") /\ hasattr(m, "Lng") /\ hasattr(m, "Alt")
             THEN Keep("GPS", <<ts, m.a["Lat"], m.a["Lng"], m.a["Alt"]>>)
        ELSE IF m.typ = "WXTP"
             THEN IF AnyNone(t012) THEN Raise
                  ELSE Keep("TEMP", <<ts>> \o ToCelsius(t012))
        ELSE IF m.typ = "WXRH"
             THEN IF AnyNone(t012) \/ AnyNone(rh012) THEN Raise
                  ELSE Keep("HUM", <<ts, nanmean(rh012), nanmean(ToCelsius(t012))>>)
        ELSE IF m.typ \in {"SCALED_PRESSURE", "BARO"}
             THEN ClassifyPressure(m, ts)
        ELSE IF m.typ \in {"TEMP", "TEMPERATURE"}
             THEN Keep("TEMP", <<ts, getattr(m, "Temp1", NaN), getattr(m, "Temp2", NaN),
                                   getattr(m, "Temp3", NaN)>>)
        ELSE IF m.typ = "IMU" /\ hasattr(m, "Temp")
             THEN Keep("IMU", <<ts, m.a["Temp"]>>)
        ELSE Drop

\* baseline.py: the record takes the satellite-time branch
IsGpsTimed(m) == m.typ = "GPS" /\ hasattr(m, "GWk") /\ hasattr(m, "GMS")

\* baseline.py: gps_epoch + GPS_TO_UNIX_OFFSET - GPS_LEAP_SECONDS - tzoff
UnixTimestamp(m, tzoff) ==
    Add(Add(Num(m.a["GWk"].n * SECONDS_PER_WEEK), DivInt(m.a["GMS"], 1000)),
        Num(GPS_TO_UNIX_OFFSET - GPS_LEAP_SECONDS - tzoff))

\* baseline.py: abs_time = first_timestamp + (msg.TimeUS / 1e6)
AbsTime(first, m) == Add(first, DivInt(m.a["TimeUS"], 1000000))

\* baseline.py, body of the second (collecting) loop for one record
ClassifyBaseline(m, first, tzoff) ==
    IF IsGpsTimed(m)
    THEN IF IsNone(m.a["GWk"]) \/ IsNone(m.a["GMS"]) THEN Raise
         ELSE IF hasattr(m, "Lat") /\ hasattr(m, "Lng") /\ hasattr(m, "Alt")
              THEN Keep("GPS", <<UnixTimestamp(m, tzoff), m.a["Lat"], m.a["Lng"], m.a["Alt"]>>)
              ELSE Drop
    ELSE IF hasattr(m, "TimeUS")
    THEN IF IsNone(first) THEN Drop
         ELSE IF IsNone(m.a["TimeUS"]) THEN Raise
         ELSE IF m.typ = "IMU" /\ hasattr(m, "Temp")
              THEN Keep("IMU", <<AbsTime(first, m), m.a["Temp"]>>)
         ELSE IF m.typ = "BARO" /\ hasattr(m, "Press")
              THEN Keep("BARO", <<AbsTime(first, m), m.a["Press"], getattr(m, "Temp", NaN)>>)
         ELSE IF m.typ = "TEMP" /\ hasattr(m, "Temp1")
              THEN Keep("TEMP", <<AbsTime(first, m), m.a["Temp1"], getattr(m, "Temp2", NaN),
                                    getattr(m, "Temp3", NaN)>>)
         ELSE IF m.typ = "HUM" /\ hasattr(m, "Humidity")
              THEN Keep("HUM", <<AbsTime(first, m), m.a["Humidity"], getattr(m, "Temp", NaN)>>)
         ELSE Drop
    ELSE Drop

\* baseline.py: if first_timestamp is None or unix_timestamp < first_timestamp
NewFirstTimestamp(first, eff) ==
    IF eff.ch = "GPS" /\ (IsNone(first) \/ Less(eff.row[1], first))
    THEN eff.row[1] ELSE first

-----------------------------------------------------------------------------
(* Time bucketing and aggregation *)

RECURSIVE SortSet(_)
SortSet(S) ==
    IF S = {} THEN <<>>
    ELSE LET m == CHOOSE x \in S : \A y \in S : x <= y
         IN  <<m>> \o SortSet(S \ {m})

\* mutant of UniqueFloor: the floors in decode order, neither sorted nor deduplicated
UniqueFloorMut(data) == [i \in 1..Len(data) |-> Floor(data[i][1])]

\* np.unique(np.floor(data[:, 0])): the distinct whole seconds, ascending
UniqueFloor(data) == SortSet({Floor(data[i][1]) : i \in 1..Len(data)})

\* data[np.floor(data[:, 0]) == t]: the rows of bucket t, in stored order
Bucket(data, t) ==
    LET InBucket(r) == Floor(r[1]) = t
    IN  SelectSeq(data, InBucket)

\* mutant of FirstFixDefault: the last stored row of the bucket wins
LastFixDefault(t) ==
    LET b == Bucket(GPS_data, t)
    IN  <<b[Len(b)][2], b[Len(b)][3], b[Len(b)][4]>>

\* BinToNETCDF.py: GPS_data[m][0, 1:4], the first stored row of the bucket, verbatim
FirstFixDefault(t) ==
    LET g == Bucket(GPS_data, t)[1]
    IN  <<ToFloat(g[2]), ToFloat(g[3]), ToFloat(g[4])>>

\* mutant of FirstFixBaseline: the first in-range row of the bucket wins
FirstValidFixBaseline(t) ==
    LET Valid(g) == /\ LessEq(Num(-90), g[2]) /\ LessEq(g[2], Num(90))
                    /\ LessEq(Num(-180), g[3]) /\ LessEq(g[3], Num(180))
        ok == SelectSeq(Bucket(GPS_data, t), Valid)
    IN  IF ok = <<>> THEN <<NaN, NaN, NaN>> ELSE <<ok[1][2], ok[1][3], ok[1][4]>>

\* baseline.py: the first stored row of the bucket, kept only when in range
FirstFixBaseline(t) ==
    LET g == Bucket(GPS_data, t)[1]
    IN  IF LessEq(Num(-90), g[2]) /\ LessEq(g[2], Num(90))
           /\ LessEq(Num(-180), g[3]) /\ LessEq(g[3], Num(180))
        THEN <<g[2], g[3], ToFloat(g[4])>>
        ELSE <<NaN, NaN, NaN>>

FirstFix(t) == IF variant = "default" THEN FirstFixDefault(t) ELSE FirstFixBaseline(t)

\* mutant of BucketMean: a bucket without samples is filled with zero
BucketMeanZero(data, c, t) ==
    LET sel == Bucket(data, t)
    IN  IF sel = <<>> THEN Num(0) ELSE nanmean(Column(sel, c))

\* if m.any(): out[...][i] = np.nanmean(data[m, c]); otherwise the cell stays NaN
BucketMean(data, c, t) ==
    LET sel == Bucket(data, t)
    IN  IF sel = <<>> THEN NaN ELSE nanmean(Column(sel, c))

\* data[:, [0, c]]
TimeAnd(data, c) == [i \in 1..Len(data) |-> <<data[i][1], data[i][c]>>]

\* mutant of TempSources: the priority order of the source comment (TEMP > IMU > BARO > HUM)
TempSourcesPriority ==
    IF TEMP_data # <<>> THEN TimeAnd(TEMP_data, 2)
    ELSE IF IMU_data # <<>> THEN IMU_data
    ELSE IF BARO_data # <<>> THEN TimeAnd(BARO_data, 3)
    ELSE TimeAnd(HUM_data, 3)

\* np.vstack(temp_sources) / np.concatenate(temp_sources)
TempSources == TimeAnd(TEMP_data, 2) \o IMU_data \o TimeAnd(BARO_data, 3) \o TimeAnd(HUM_data, 3)

AllNaN(N) == [i \in 1..N |-> NaN]

\* the column dictionary after the aggregation loops, before smoothing
Aggregated ==
    LET bins == UniqueFloor(GPS_data)
        N == Len(bins)
    IN  [obs |-> [i \in 1..N |-> i],
         lat |-> [i \in 1..N |-> FirstFix(bins[i])[1]],
         lon |-> [i \in 1..N |-> FirstFix(bins[i])[2]],
         altitude |-> [i \in 1..N |-> FirstFix(bins[i])[3]],
         time |-> bins,
         air_temp |-> [i \in 1..N |-> BucketMean(TempSources, 2, bins[i])],
         dew_point |-> AllNaN(N),
         rel_hum |-> [i \in 1..N |-> BucketMean(HUM_data, 2, bins[i])],
         air_press |-> [i \in 1..N |-> BucketMean(BARO_data, 2, bins[i])],
         gpt |-> AllNaN(N), gpt_height |-> AllNaN(N),
         wind_speed |-> AllNaN(N), wind_dir |-> AllNaN(N)]

EmptyOut == [obs |-> <<>>, lat |-> <<>>, lon |-> <<>>, altitude |-> <<>>, time |-> <<>>,
             air_temp |-> <<>>, dew_point |-> <<>>, rel_hum |-> <<>>, air_press |-> <<>>,
             gpt |-> <<>>, gpt_height |-> <<>>, wind_speed |-> <<>>, wind_dir |-> <<>>]

\* A channel with a non-numeric (None) entry becomes an object array. np.floor of
\* its time column still works (NumPy >= 1.17 falls back to math.floor), so a None
\* does harm only where a statement reads it.

\* np.nanmean(data[m, c]) for some row of the table: adding a None raises TypeError
MeanRaises(data, c) ==
    LET bins == UniqueFloor(GPS_data)
    IN  \E i \in 1..Len(bins) :
            \E k \in 1..Len(Bucket(data, bins[i])) : IsNone(Bucket(data, bins[i])[k][c])

\* baseline.py: -90 <= lat <= 90 and -180 <= lon <= 180 on the first row of a bucket:
\* comparing None raises TypeError; lon is read only when lat is in range
RangeCheckRaises ==
    LET bins == UniqueFloor(GPS_data)
    IN  \E i \in 1..Len(bins) :
            LET g == Bucket(GPS_data, bins[i])[1]
            IN  \/ IsNone(g[2])
                \/ LessEq(Num(-90), g[2]) /\ LessEq(g[2], Num(90)) /\ IsNone(g[3])

\* an exception leaves the aggregation loops
AggregationRaises ==
    \/ variant = "baseline" /\ RangeCheckRaises
    \/ MeanRaises(BARO_data, 2)
    \/ MeanRaises(HUM_data, 2)
    \/ MeanRaises(TempSources, 2)

-----------------------------------------------------------------------------
(* Temperature smoother: scipy.ndimage.uniform_filter1d(x, size=9, mode='nearest') *)

\* the input line extended by replicating the edge values
Pad(x, j) == x[IF j < 1 THEN 1 ELSE IF j > Len(x) THEN Len(x) ELSE j]

\* the filter keeps one running sum: the sum of the first window, then for each
\* further row the entering value is added and the leaving value subtracted
RECURSIVE RunningSum(_, _)
RunningSum(x, i) ==
    IF i = 1
    THEN SumSeq([k \in 1..FILTER_SIZE |-> Pad(x, k - (FILTER_SIZE \div 2))])
    ELSE Add(RunningSum(x, i - 1),
             Sub(Pad(x, i + (FILTER_SIZE \div 2)), Pad(x, i - 1 - (FILTER_SIZE \div 2))))

uniform_filter1d(x) == [i \in 1..Len(x) |-> DivInt(RunningSum(x, i), FILTER_SIZE)]

\* if temp_sources: ... if N > 9: out['air_temp'] = uniform_filter1d(...)
Smoothed(col) ==
    IF TempSources # <<>> /\ Len(col) > FILTER_SIZE THEN uniform_filter1d(col) ELSE col

-----------------------------------------------------------------------------
(* Dew point (Magnus formula). The logarithm is not rational, so the value is   *)
(* a fixed-point approximation of the floating point result, rounded to 1/1000   *)
(* degree; it is never the float itself. Temperature is rounded to 1/1000 degree *)
(* on entry, humidity enters the logarithm as the exact ratio. Measured against  *)
(* the floating point formula on random inputs with humidity 0.001..100 percent: *)
(* within 0.003 degree for -40..60 C, 0.005 for -240..300 C, 0.03 for            *)
(* -273..1000 C. Outside -273..1000 C the 32-bit arithmetic can overflow.        *)

\* floor(x * m / k) for k > 0, computed without forming x * m
MulDiv(x, m, k) == m * (x \div k) + (m * (x % k)) \div k

\* floor((q + r / D) * 2^k) for D > 0 and 0 <= r < D, by long division
RECURSIVE Quotient(_, _, _, _)
Quotient(q, r, D, k) ==
    IF k = 0 THEN q ELSE Quotient(2 * q + (2 * r) \div D, (2 * r) % D, D, k - 1)

\* ln(p / q) * 10^6 for 0 < p <= q: halvings of the ratio down to (1/2, 1], then the
\* series 2 * (z + z^3/3 + z^5/5 + z^7/7) with z = (p - q) / (p + q), z in 1/100000
RECURSIVE Ln6(_, _)
Ln6(p, q) ==
    IF 2 * p <= q THEN Ln6(2 * p, q) - 693147
    ELSE LET z  == -MulDiv(Quotient(0, q - p, p + q, 20), 3125, 32768)
             z2 == (z * z) \div 100000
             z3 == (z * z2) \div 100000
             z5 == (z3 * z2) \div 100000
             z7 == (z5 * z2) \div 100000
         IN  20 * (z + (z3 \div 3) + (z5 \div 5) + (z7 \div 7))

\* np.clip(RH, 0.1, 100.0)
ClipRH(RH) ==
    IF IsNaN(RH) THEN NaN
    ELSE IF Less(RH, Rat(1, 10)) THEN Rat(1, 10)
    ELSE IF Less(Num(100), RH) THEN Num(100)
    ELSE RH

\* a, b = 17.62, 243.12 ; alpha = a*Tc/(b+Tc) + log(RH/100) ; b*alpha/(a-alpha).
\* With u = b + Tc and L = log(RH/100) the result is  b*(a*Tc + L*u) / (a*b - L*u),
\* which is evaluated here; at u = 0 the code's alpha is infinite and inf/inf is NaN.
\* a*b = 4283.7744. L*u is rounded down to 1/10000; numerator and denominator are
\* taken at the middle of their rounding interval, in 1/20000.
compute_dew_point(Tc, RH) ==
    IF IsNaN(Tc) \/ IsNaN(RH) THEN NaN
    ELSE IF 100 * Tc.n + 24312 * Tc.d = 0 THEN NaN
    ELSE LET TcM == (Tc.n * 2000 + Tc.d) \div (2 * Tc.d)             \* Tc, 1/1000
             uM  == 243120 + TcM                                     \* u, 1/1000
             L6  == Ln6(ClipRH(RH).n, 100 * ClipRH(RH).d)            \* L, 1/1000000
             Lu4 == MulDiv(uM, L6 \div 1000, 100) + ((L6 % 1000) * uM) \div 100000
             N   == 2 * (MulDiv(TcM, 1762, 10) + Lu4) + 1            \* a*Tc + L*u
             D   == 2 * (42837744 - Lu4) - 1                         \* a*b - L*u
             R   == IF D > 0 THEN Quotient(N \div D, N % D, D, 20)   \* N / D, 1/2^20
                    ELSE Quotient((-N) \div (-D), (-N) % (-D), -D, 20)
         IN  Rat((MulDiv(R, 15195, 32768) + 1) \div 2, 1000)         \* b * N / D

DewColumn(temp, hum) == [i \in 1..Len(temp) |-> compute_dew_point(temp[i], hum[i])]

-----------------------------------------------------------------------------
(* Inputs: the decoded sessions the model runs on *)

\* longest session of the general family
MaxLen == 4
\* most rows of a session of the smoothing family
MaxRows == 11
\* longest session of the malformed-record family
MaxBadLen == 3
\* most temperature-bearing records of a session of the pooling family
MaxPool == 3
\* decoder wall-clock time of the first half-second of a session, seconds
SessionStart == 100

NoAttrs == [k \in {} |-> NaN]

\* the time attributes every decoded record carries, h half-seconds into the session
Clock(h) == ("_timestamp" :> Rat(2 * SessionStart + h, 2)) @@ ("TimeUS" :> Num(500000 * h))

\* the satellite-time attributes of a positioning record
SatClock(h) == Clock(h) @@ ("GWk" :> Num(2)) @@ ("GMS" :> Num(500 * h))

Fix(lat, lng, alt) == ("Lat" :> Num(lat)) @@ ("Lng" :> Num(lng)) @@ ("Alt" :> Num(alt))

gA == Msg("GPS", SatClock(0) @@ Fix(45, 7, 100))
gB == Msg("GPS", SatClock(1) @@ Fix(91, 8, 300))
gC == Msg("GPS", SatClock(2) @@ Fix(46, 9, 200))
b0 == Msg("BARO", Clock(1) @@ ("Press" :> Num(1000)) @@ ("Temp" :> Num(20)))
b1 == Msg("BARO", Clock(0) @@ ("Press" :> Num(1020)))
i0 == Msg("IMU", Clock(2) @@ ("Temp" :> Num(30)))
i1 == Msg("IMU", Clock(1) @@ ("Temp" :> Num(30)))
t0 == Msg("TEMP", Clock(0) @@ ("Temp1" :> Num(10)))

\* the humidity record each variant recognises
h0(v) == IF v = "default"
         THEN Msg("WXRH", Clock(1) @@ (" rh0" :> Num(60)) @@ (" rh1" :> Num(80))
                          @@ (" t0" :> Rat(29515, 100)))
         ELSE Msg("HUM", Clock(1) @@ ("Humidity" :> Num(70)) @@ ("Temp" :> Num(22)))

\* malformed and partially unreadable records
badW == Msg("WXTP", Clock(1) @@ (" t0" :> NoneVal))
badT == Msg("BARO", ("_timestamp" :> Rat(2 * SessionStart + 1, 2)) @@ ("TimeUS" :> NoneVal)
                     @@ ("Press" :> Num(990)))
badG == Msg("GPS", Clock(2) @@ ("GWk" :> Num(2)) @@ ("GMS" :> NoneVal) @@ Fix(46, 9, 200))
badI == Msg("IMU", Clock(1) @@ ("Temp" :> NoneVal))
noTs == Msg("IMU", ("_timestamp" :> NoneVal) @@ ("Temp" :> Num(30)))

SeqsUpTo(S, n) == UNION {[1..k -> S] : k \in 0..n}

GeneralMsgs(v) == {gA, gB, gC, b0, b1, i0, t0, h0(v)}
GeneralFamily(v) == SeqsUpTo(GeneralMsgs(v), MaxLen)

BadMsgs == {gA, b0, badW, badT, badG, badI, noTs}
BadFamily == SeqsUpTo(BadMsgs, MaxBadLen)

PoolMsgs(v) == {t0, i1, b0, b1, h0(v)}
PoolFamily(v) == {<<gA>> \o s : s \in SeqsUpTo(PoolMsgs(v), MaxPool)}

\* an optional attribute: absent, or present with one of the values
Opt(k, Vals) == {NoAttrs} \cup {k :> x : x \in Vals}

PressureMsgs ==
    {Msg(typ, Clock(1) @@ pa @@ pr @@ te @@ tp) :
        typ \in {"SCALED_PRESSURE", "BARO"},
        pa \in Opt("press_abs", {Num(0), Num(1010)}),
        pr \in Opt("Press", {Num(0), Num(990)}),
        te \in Opt("temperature", {Num(0), Num(150), Num(300)}),
        tp \in Opt("Temp", {Num(25)})}

OtherMsgs ==
    {Msg("GPS", SatClock(1) @@ ("Lat" :> Num(45)) @@ ("Lng" :> Num(7))),
     Msg("GPS", Clock(1) @@ Fix(45, 7, 100)),
     Msg("ATT", Clock(1) @@ ("Temp" :> Num(30))),
     Msg("IMU", Clock(1)),
     Msg("TEMPERATURE", Clock(1) @@ ("Temp2" :> Num(11))),
     Msg("WXTP", Clock(1) @@ (" t0" :> Rat(29515, 100)) @@ (" t1" :> Num(0))),
     Msg("HUM", Clock(1) @@ ("Temp" :> Num(22))),
     Msg("IMU", ("TimeUS" :> Num(500000)) @@ ("Temp" :> Num(30)))}

ClassifyFamily == {<<gA, m>> : m \in PressureMsgs \cup OtherMsgs}

\* the smoothing family: n rows, one positioning record per second, each followed by
\* an inertial temperature 10 + i except at the gap; a humidity record in the first row
SmoothRow(v, i, gap) ==
    <<Msg("GPS", SatClock(2 * i) @@ Fix(45, 7, 100 + i))>>
    \o (IF i = 0 THEN <<h0(v)>> ELSE <<>>)
    \o (IF i + 1 = gap THEN <<>> ELSE <<Msg("IMU", Clock(2 * i) @@ ("Temp" :> Num(10 + i)))>>)

RECURSIVE SmoothStream(_, _, _)
SmoothStream(v, n, gap) ==
    IF n = 0 THEN <<>> ELSE SmoothStream(v, n - 1, gap) \o SmoothRow(v, n - 1, gap)

SmoothFamily(v) == {SmoothStream(v, n, gap) : n \in FILTER_SIZE..MaxRows, gap \in 0..MaxRows}

Streams(v) == GeneralFamily(v) \cup BadFamily \cup PoolFamily(v) \cup ClassifyFamily
              \cup SmoothFamily(v)

\* local-time offsets of the host
UtcOffsets == {0, 3600}

-----------------------------------------------------------------------------
(* The run *)

Init ==
    /\ variant \in {"default", "baseline"}
    /\ stream \in Streams(variant)
    /\ utcoffset \in (IF variant = "baseline" THEN UtcOffsets ELSE {0})
    /\ pc = (IF variant = "baseline" THEN "pass1" ELSE "collect")
    /\ idx = 0
    /\ timezone_offset = 0
    /\ first_timestamp = NoneVal
    /\ GPS_data = <<>> /\ IMU_data = <<>> /\ BARO_data = <<>>
    /\ TEMP_data = <<>> /\ HUM_data = <<>>
    /\ out = EmptyOut
    /\ ret = "pending"
    /\ warnings = 0
    /\ errors = {}
    /\ save_called = FALSE
    /\ txt_file = "absent"
    /\ nc_file = "absent"
    /\ status = "running"

\* the status the run ends with when an exception leaves process_dataflash_log or
\* save_outputs: BinToNETCDF.py has no handler, baseline.py reports a fatal error
Uncaught ==
    /\ pc' = "done"
    /\ status' = (IF variant = "default" THEN "Traceback" ELSE "Fatal processing error")
    /\ errors' = errors \cup {IF variant = "default" THEN "Traceback" ELSE "Fatal processing error"}

\* baseline.py, first pass: timezone offset from the first satellite-timed record
FirstPass ==
    /\ pc = "pass1"
    /\ LET timed == {i \in 1..Len(stream) : IsGpsTimed(stream[i])}
           first == CHOOSE i \in timed : \A j \in timed : i <= j
       IN  IF timed = {}
           THEN /\ pc' = "collect"
                /\ UNCHANGED <<timezone_offset, ret, status, errors>>
           ELSE IF IsNone(stream[first].a["GWk"]) \/ IsNone(stream[first].a["GMS"])
           THEN /\ Uncaught
                /\ ret' = "raised"
                /\ UNCHANGED timezone_offset
           ELSE /\ timezone_offset' = utcoffset
                /\ pc' = "collect"
                /\ UNCHANGED <<ret, status, errors>>
    /\ UNCHANGED <<variant, stream, utcoffset, idx, first_timestamp, GPS_data, IMU_data,
                   BARO_data, TEMP_data, HUM_data, out, warnings, save_called,
                   txt_file, nc_file>>

Classify(m) == IF variant = "default" THEN ClassifyDefault(m)
               ELSE ClassifyBaseline(m, first_timestamp, timezone_offset)

AppendTo(ch, data, eff) == IF eff.ch = ch THEN data \o <<eff.row>> ELSE data

\* one turn of the collecting loop: recv_match hands out the next record
Recv ==
    /\ pc = "collect"
    /\ idx < Len(stream)
    /\ LET eff == Classify(stream[idx + 1])
       IN  IF eff.ch = "raise" /\ variant = "default"
           THEN /\ Uncaught
                /\ ret' = "raised"
                /\ UNCHANGED <<idx, warnings, first_timestamp, GPS_data, IMU_data,
                               BARO_data, TEMP_data, HUM_data>>
           ELSE /\ idx' = idx + 1
                /\ warnings' = (IF eff.ch = "raise" THEN warnings + 1 ELSE warnings)
                /\ first_timestamp' = (IF variant = "baseline"
                                       THEN NewFirstTimestamp(first_timestamp, eff)
                                       ELSE first_timestamp)
                /\ GPS_data' = AppendTo("GPS", GPS_data, eff)
                /\ IMU_data' = AppendTo("IMU", IMU_data, eff)
                /\ BARO_data' = AppendTo("BARO", BARO_data, eff)
                /\ TEMP_data' = AppendTo("TEMP", TEMP_data, eff)
                /\ HUM_data' = AppendTo("HUM", HUM_data, eff)
                /\ UNCHANGED <<pc, ret, status, errors>>
    /\ UNCHANGED <<variant, stream, utcoffset, timezone_offset, out, save_called,
                   txt_file, nc_file>>

\* mutant of NoPositionSamples: the emptiness check looks at the wrong channel
NoPositionSamplesMut == GPS_data = <<>> /\ BARO_data = <<>>

\* if GPS_data.size == 0 / if len(GPS_data) == 0
NoPositionSamples == GPS_data = <<>>

\* end of the stream: the channels become arrays and are aggregated on the master index
Aggregate ==
    /\ pc = "collect"
    /\ idx = Len(stream)
    /\ IF NoPositionSamples
       THEN /\ errors' = errors \cup {"no GPS"}
            /\ ret' = "None"
            /\ pc' = "main"
            /\ UNCHANGED <<out, status>>
       ELSE IF AggregationRaises
       THEN /\ Uncaught
            /\ ret' = "raised"
            /\ UNCHANGED out
       ELSE /\ out' = Aggregated
            /\ pc' = "smooth"
            /\ UNCHANGED <<ret, status, errors>>
    /\ UNCHANGED <<variant, stream, utcoffset, idx, timezone_offset, first_timestamp,
                   GPS_data, IMU_data, BARO_data, TEMP_data, HUM_data, warnings,
                   save_called, txt_file, nc_file>>

\* the moving average over air_temp; baseline.py returns the table right after it
Smooth ==
    /\ pc = "smooth"
    /\ out' = [out EXCEPT !.air_temp = Smoothed(@)]
    /\ IF variant = "default"
       THEN pc' = "dew" /\ UNCHANGED ret
       ELSE pc' = "main" /\ ret' = "DataFrame"
    /\ UNCHANGED <<variant, stream, utcoffset, idx, timezone_offset, first_timestamp,
                   GPS_data, IMU_data, BARO_data, TEMP_data, HUM_data, warnings, errors,
                   save_called, txt_file, nc_file, status>>

\* BinToNETCDF.py: out['dew_point'] = compute_dew_point(out['air_temp'], out['rel_hum'])
DewPoint ==
    /\ pc = "dew"
    /\ out' = [out EXCEPT !.dew_point = DewColumn(out.air_temp, out.rel_hum)]
    /\ ret' = "DataFrame"
    /\ pc' = "main"
    /\ UNCHANGED <<variant, stream, utcoffset, idx, timezone_offset, first_timestamp,
                   GPS_data, IMU_data, BARO_data, TEMP_data, HUM_data, warnings, errors,
                   save_called, txt_file, nc_file, status>>

\* the main flow when process_dataflash_log returned None
MainNoData ==
    /\ pc = "main"
    /\ ret = "None"
    /\ status' = (IF variant = "default" THEN "no status"
                  ELSE "No valid data extracted from log file")
    /\ pc' = "done"
    /\ UNCHANGED <<variant, stream, utcoffset, idx, timezone_offset, first_timestamp,
                   GPS_data, IMU_data, BARO_data, TEMP_data, HUM_data, out, ret,
                   warnings, errors, save_called, txt_file, nc_file>>

\* save_outputs, first half: the text table; an I/O failure of the writer, before or
\* after the file is created, is not handled
SaveText ==
    /\ pc = "main"
    /\ ret = "DataFrame"
    /\ save_called' = TRUE
    /\ \E ok \in BOOLEAN :
        IF Len(out.obs) = 0        \* df.empty: "No data to save", return False
        THEN /\ status' = (IF variant = "default" THEN "Done with errors"
                           ELSE "Processing completed with output errors")
             /\ pc' = "done"
             /\ UNCHANGED <<txt_file, errors>>
        ELSE IF ok
        THEN /\ txt_file' = "written"
             /\ pc' = "nc"
             /\ UNCHANGED <<status, errors>>
        ELSE /\ txt_file' \in {"absent", "partial"}
             /\ Uncaught
    /\ UNCHANGED <<variant, stream, utcoffset, idx, timezone_offset, first_timestamp,
                   GPS_data, IMU_data, BARO_data, TEMP_data, HUM_data, out, ret,
                   warnings, nc_file>>

\* mutant of SaveNc: the NetCDF writer runs outside the try/except
SaveNcUncaught ==
    /\ pc = "nc"
    /\ \E ok \in BOOLEAN :
        IF ok
        THEN /\ nc_file' = "written"
             /\ status' = (IF variant = "default" THEN "Done"
                           ELSE "Processing completed successfully")
             /\ pc' = "done"
             /\ UNCHANGED errors
        ELSE /\ nc_file' \in {"absent", "partial"}
             /\ Uncaught
    /\ UNCHANGED <<variant, stream, utcoffset, idx, timezone_offset, first_timestamp,
                   GPS_data, IMU_data, BARO_data, TEMP_data, HUM_data, out, ret,
                   warnings, save_called, txt_file>>

\* save_outputs, second half: the NetCDF file inside try/except, then the status line
SaveNc ==
    /\ pc = "nc"
    /\ \E ok \in BOOLEAN :
        IF ok
        THEN /\ nc_file' = "written"
             /\ status' = (IF variant = "default" THEN "Done"
                           ELSE "Processing completed successfully")
             /\ UNCHANGED errors
        ELSE /\ nc_file' \in {"absent", "partial"}
             /\ errors' = errors \cup {"NetCDF"}
             /\ status' = (IF variant = "default" THEN "Done with errors"
                           ELSE "Processing completed with output errors")
    /\ pc' = "done"
    /\ UNCHANGED <<variant, stream, utcoffset, idx, timezone_offset, first_timestamp,
                   GPS_data, IMU_data, BARO_data, TEMP_data, HUM_data, out, ret,
                   warnings, save_called, txt_file>>

Next == FirstPass \/ Recv \/ Aggregate \/ Smooth \/ DewPoint \/ MainNoData
        \/ SaveText \/ SaveNc

Spec == Init /\ [][Next]_vars

-----------------------------------------------------------------------------
(* Properties *)

Rows == 1..Len(out.time)

\* the bucket keys of the Position channel
PositionKeys == {Floor(GPS_data[j][1]) : j \in 1..Len(GPS_data)}

\* index of the Position sample of bucket t that is earliest in decode order
Earliest(t) ==
    CHOOSE j \in 1..Len(GPS_data) :
        /\ Floor(GPS_data[j][1]) = t
        /\ \A k \in 1..(j - 1) : Floor(GPS_data[k][1]) # t

\* indices of the samples of a channel that fall in bucket t with a non-NaN field c
Contributing(data, c, t) ==
    {j \in 1..Len(data) : Floor(data[j][1]) = t /\ ~IsNaN(data[j][c])}

RECURSIVE TotalOf(_, _, _)
TotalOf(data, c, S) ==
    IF S = {} THEN Num(0)
    ELSE LET j == CHOOSE k \in S : TRUE
         IN  Add(data[j][c], TotalOf(data, c, S \ {j}))

\* x is total / count, and NaN when count is zero
IsMean(x, total, count) ==
    IF count = 0 THEN IsNaN(x)
    ELSE IsFinite(x) /\ x.n * total.d * count = total.n * x.d

ColumnNames == {"obs", "lat", "lon", "altitude", "time", "air_temp", "dew_point",
                "rel_hum", "air_press", "gpt", "gpt_height", "wind_speed", "wind_dir"}

\* C1: whenever at least one Position sample was decoded and the run reaches the main
\* flow, a table is returned; the returned table has exactly one row per distinct
\* floor(timestamp) of the Position samples: its time column is strictly ascending,
\* holds exactly the bucket keys, and obs is 1, 2, ..., N in row order.
C1_MasterIndex ==
    /\ (pc = "main" /\ GPS_data # <<>>) => ret = "DataFrame"
    /\ ret = "DataFrame" =>
        /\ Len(out.time) = Cardinality(PositionKeys)
        /\ Len(out.time) >= 1
        /\ {out.time[i] : i \in Rows} = PositionKeys
        /\ \A i \in Rows : i > 1 => out.time[i - 1] < out.time[i]
        /\ \A i \in Rows : out.obs[i] = i
        /\ \A c \in ColumnNames : Len(out[c]) = Len(out.time)

\* a returned table with several rows, built from Position samples that were decoded
\* out of time order and that share a bucket
C1_Witness ==
    /\ ret = "DataFrame"
    /\ Len(out.time) >= 2
    /\ Len(GPS_data) > Len(out.time)
    /\ \E i, j \in 1..Len(GPS_data) : i < j /\ Less(GPS_data[j][1], GPS_data[i][1])

\* C2: when the session yields no Position sample, process_dataflash_log reports the
\* error and returns None, the main flow never calls save_outputs, and neither
\* output file is written; the run does not end with a success status.
C2_NoPosition ==
    /\ (pc = "main" /\ GPS_data = <<>>) => (ret = "None" /\ "no GPS" \in errors)
    /\ GPS_data = <<>> => (~save_called /\ txt_file = "absent" /\ nc_file = "absent")
    /\ (pc = "done" /\ GPS_data = <<>>) =>
            /\ ret \in {"None", "raised"}
            /\ errors # {}
            /\ status \notin {"Done", "Processing completed successfully"}

\* a finished run without any Position sample although other channels hold samples
C2_Witness ==
    /\ pc = "done"
    /\ GPS_data = <<>>
    /\ BARO_data # <<>>
    /\ ret = "None"
    /\ Len(stream) >= 2

\* the latitude/longitude/altitude of row i are those of the earliest Position sample
\* of the row's bucket
FromEarliest(i) ==
    LET g == GPS_data[Earliest(out.time[i])]
    IN  /\ out.lat[i] = g[2]
        /\ out.lon[i] = g[3]
        /\ out.altitude[i] = g[4]

\* C3 as stated: in every returned table, each row's latitude, longitude and altitude
\* are those of the Position sample that is earliest in decode order in the row's bucket.
C3_FirstWins_Original ==
    ret = "DataFrame" => \A i \in Rows : FromEarliest(i)

EarliestInRange(i) ==
    LET g == GPS_data[Earliest(out.time[i])]
    IN  /\ LessEq(Num(-90), g[2]) /\ LessEq(g[2], Num(90))
        /\ LessEq(Num(-180), g[3]) /\ LessEq(g[3], Num(180))

\* C3 amended: each row's latitude, longitude and altitude are decided by the Position
\* sample that is earliest in decode order in the row's bucket alone: they are copied
\* from it, except that the range-checking variant (baseline.py) leaves all three NaN
\* when that sample's latitude is outside [-90,90] or its longitude outside [-180,180].
\* Later samples of the bucket and samples of other buckets never influence the row.
C3_FirstWins ==
    ret = "DataFrame" =>
        \A i \in Rows :
            IF variant = "default" \/ EarliestInRange(i)
            THEN FromEarliest(i)
            ELSE IsNaN(out.lat[i]) /\ IsNaN(out.lon[i]) /\ IsNaN(out.altitude[i])

\* a returned table with a bucket that holds two Position samples with different
\* fields, decoded after a sample of a later bucket, whose row has the first one's fields
C3_Witness ==
    /\ ret = "DataFrame"
    /\ \E i \in Rows : \E j, k \in 1..Len(GPS_data) :
          /\ j < k
          /\ j = Earliest(out.time[i])
          /\ Floor(GPS_data[k][1]) = out.time[i]
          /\ GPS_data[k][2] # GPS_data[j][2]
          /\ out.lat[i] = GPS_data[j][2]
          /\ IsFinite(out.lat[i])
          /\ \E l \in 1..(j - 1) : Floor(GPS_data[l][1]) > out.time[i]

\* C4: in every returned table, air_press (rel_hum) of each row is the arithmetic mean
\* of the non-NaN pressure (humidity) values of the Pressure (Humidity) samples of the
\* row's bucket, and NaN when there is none; the columns are as long as the master index.
C4_PressureHumidityMean ==
    ret = "DataFrame" =>
        /\ Len(out.air_press) = Len(out.time)
        /\ Len(out.rel_hum) = Len(out.time)
        /\ \A i \in Rows :
            LET P == Contributing(BARO_data, 2, out.time[i])
                H == Contributing(HUM_data, 2, out.time[i])
            IN  /\ IsMean(out.air_press[i], TotalOf(BARO_data, 2, P), Cardinality(P))
                /\ IsMean(out.rel_hum[i], TotalOf(HUM_data, 2, H), Cardinality(H))

\* a returned table with a row whose pressure is the mean of two different pressure
\* values and whose humidity is NaN because the bucket has no Humidity sample
C4_Witness ==
    /\ ret = "DataFrame"
    /\ \E i \in Rows :
          /\ \E j, k \in 1..Len(BARO_data) :
                /\ Floor(BARO_data[j][1]) = out.time[i]
                /\ Floor(BARO_data[k][1]) = out.time[i]
                /\ Less(BARO_data[j][2], BARO_data[k][2])
                /\ Less(BARO_data[j][2], out.air_press[i])
                /\ Less(out.air_press[i], BARO_data[k][2])
          /\ IsNaN(out.rel_hum[i])

\* C5: after aggregation and before smoothing, air_temp of each row is the unweighted
\* arithmetic mean of the non-NaN temperatures of all samples of the row's bucket from
\* the Temperature (first reading), InertialTemperature, Pressure and Humidity
\* channels pooled together, and NaN when the pool is empty.
C5_PooledTemperature ==
    pc = "smooth" =>
        \A i \in Rows :
            LET T == Contributing(TEMP_data, 2, out.time[i])
                I == Contributing(IMU_data, 2, out.time[i])
                B == Contributing(BARO_data, 3, out.time[i])
                H == Contributing(HUM_data, 3, out.time[i])
            IN  IsMean(out.air_temp[i],
                       Add(Add(TotalOf(TEMP_data, 2, T), TotalOf(IMU_data, 2, I)),
                           Add(TotalOf(BARO_data, 3, B), TotalOf(HUM_data, 3, H))),
                       Cardinality(T) + Cardinality(I) + Cardinality(B) + Cardinality(H))

\* an aggregated row whose pool holds two inertial samples and one pressure sample with
\* a different temperature: the pooled mean differs from the mean of the channel means
C5_Witness ==
    /\ pc = "smooth"
    /\ \E i \in Rows :
          LET I == Contributing(IMU_data, 2, out.time[i])
              B == Contributing(BARO_data, 3, out.time[i])
          IN  /\ Cardinality(I) = 2
              /\ Cardinality(B) = 1
              /\ Contributing(TEMP_data, 2, out.time[i]) = {}
              /\ Contributing(HUM_data, 3, out.time[i]) = {}
              /\ \E j \in I, k \in B : IMU_data[j][2] # BARO_data[k][3]
              /\ IsFinite(out.air_temp[i])

\* C6: in every returned table, each row's dew_point is the dew point of that row's
\* smoothed air_temp and aggregated rel_hum: NaN when one of the two is NaN, and a
\* computed value when both are finite.
C6_DewPoint ==
    ret = "DataFrame" =>
        \A i \in Rows :
            /\ IsNaN(out.dew_point[i]) <=> (IsNaN(out.air_temp[i]) \/ IsNaN(out.rel_hum[i]))
            /\ out.dew_point[i] = compute_dew_point(out.air_temp[i], out.rel_hum[i])

\* the average of the 9 values at positions i-4..i+4, positions outside the column
\* replaced by the first or last value
WindowAverage(col, i) ==
    LET Near(j) == col[IF j < 1 THEN 1 ELSE IF j > Len(col) THEN Len(col) ELSE j]
    IN  DivInt(SumSeq([k \in 1..9 |-> Near(i - 5 + k)]), 9)

\* C7: the smoothing step keeps the number and order of rows; with 9 rows or fewer
\* air_temp is unchanged, with more than 9 rows each row gets the average of the 9
\* aggregated values around it under nearest padding.
C7_Smoother ==
    [][pc = "smooth" =>
        /\ out'.time = out.time
        /\ out'.obs = out.obs
        /\ Len(out'.air_temp) = Len(out.air_temp)
        /\ \A i \in Rows :
              out'.air_temp[i] = IF Len(out.time) <= 9 THEN out.air_temp[i]
                                 ELSE WindowAverage(out.air_temp, i)]_vars

\* C8: the NetCDF writer is attempted only after the text table is completely written;
\* when the NetCDF writer fails the failure is reported, the text table stays written,
\* and the run ends with the output-errors status, not with a fatal error.
C8_NetcdfFailureCaught ==
    /\ pc = "nc" => (txt_file = "written" /\ nc_file = "absent")
    /\ nc_file # "absent" => txt_file = "written"
    /\ (pc = "done" /\ txt_file = "written" /\ nc_file # "written") =>
            /\ "NetCDF" \in errors
            /\ status = (IF variant = "default" THEN "Done with errors"
                         ELSE "Processing completed with output errors")
            /\ "Traceback" \notin errors
            /\ "Fatal processing error" \notin errors

\* a finished run whose NetCDF writer failed half way after the text table was written
C8_Witness ==
    /\ pc = "done"
    /\ txt_file = "written"
    /\ nc_file = "partial"
    /\ "NetCDF" \in errors
    /\ variant = "baseline"
    /\ status = "Processing completed with output errors"

\* a record one of whose fields holds a non-numeric value
Malformed(m) == \E k \in DOMAIN m.a : IsNone(m.a[k])

\* C9: a malformed record never aborts the run: a run whose text writer did not fail
\* ends without an uncaught exception and without a fatal error, whatever malformed
\* records the stream holds.
C9_MalformedSkipped ==
    (pc = "done" /\ (save_called => txt_file = "written")) =>
        /\ "Traceback" \notin errors
        /\ "Fatal processing error" \notin errors
        /\ ret # "raised"

\* the record is of a pressure type and carries a pressure field and a timestamp
IsPressureRecord(m) ==
    /\ m.typ \in {"SCALED_PRESSURE", "BARO"}
    /\ hasattr(m, "press_abs") \/ hasattr(m, "Press")
    /\ hasattr(m, "_timestamp") /\ ~IsNone(m.a["_timestamp"])

\* the pressure field that is present
PresentPressure(m) == IF hasattr(m, "press_abs") THEN m.a["press_abs"] ELSE m.a["Press"]

\* the temperature as given, NaN when absent, Kelvin to Celsius only above 200
ExpectedTemperature(m) ==
    LET t == IF hasattr(m, "temperature") THEN m.a["temperature"]
             ELSE IF hasattr(m, "Temp") THEN m.a["Temp"] ELSE NaN
    IN  IF Less(Num(200), t) THEN Sub(t, Rat(27315, 100)) ELSE t

\* C10: in BinToNETCDF.py every record handed out so far went to at most one channel,
\* and the Pressure channel holds exactly the records of a pressure type that carry a
\* pressure field, in order, each with that pressure (whatever its value, 0 included)
\* and with its temperature converted from Kelvin only when above 200.
C10_PressureRouted ==
    (variant = "default" /\ ret # "raised") =>
        LET recs == SelectSeq(SubSeq(stream, 1, idx), IsPressureRecord)
        IN  /\ Len(GPS_data) + Len(IMU_data) + Len(BARO_data) + Len(TEMP_data)
                 + Len(HUM_data) <= idx
            /\ Len(BARO_data) = Len(recs)
            /\ \A k \in 1..Len(recs) :
                  /\ k <= Len(BARO_data)
                  /\ BARO_data[k][2] = PresentPressure(recs[k])
                  /\ BARO_data[k][3] = ExpectedTemperature(recs[k])

\* the record is one baseline.py keeps as a Position sample
IsPositionRecord(m) ==
    /\ IsGpsTimed(m)
    /\ ~IsNone(m.a["GWk"]) /\ ~IsNone(m.a["GMS"])
    /\ hasattr(m, "Lat") /\ hasattr(m, "Lng") /\ hasattr(m, "Alt")

\* the smallest Position timestamp of the whole session, None when there is none
SessionAnchor ==
    LET P == {i \in 1..Len(stream) : IsPositionRecord(stream[i])}
        T(i) == UnixTimestamp(stream[i], timezone_offset)
    IN  IF P = {} THEN NoneVal
        ELSE T(CHOOSE i \in P : \A j \in P : LessEq(T(i), T(j)))

\* C11: in baseline.py every sample appended to the IMU, BARO, TEMP or HUM channel is
\* stamped  A + TimeUS/1e6  where A is one anchor for the whole run, the smallest
\* Position timestamp of the session, whatever the order of the records in the stream.
C11_SingleAnchor ==
    [][(variant = "baseline" /\ pc = "collect" /\ idx' = idx + 1) =>
        \A d \in {<<IMU_data, IMU_data'>>, <<BARO_data, BARO_data'>>,
                  <<TEMP_data, TEMP_data'>>, <<HUM_data, HUM_data'>>} :
            d[2] # d[1] =>
                d[2][Len(d[2])][1] =
                    Add(SessionAnchor, DivInt(stream[idx + 1].a["TimeUS"], 1000000))]_vars

\* the Position sample has latitude in [-90,90] and longitude in [-180,180]
SampleInRange(g) ==
    /\ LessEq(Num(-90), g[2]) /\ LessEq(g[2], Num(90))
    /\ LessEq(Num(-180), g[3]) /\ LessEq(g[3], Num(180))

\* the row of bucket t
RowOf(t) == CHOOSE i \in Rows : out.time[i] = t

\* C12: once the table is aggregated, every bucket of the Position channel has its row.
\* In baseline.py, when the bucket's first Position sample in decode order has latitude
\* outside [-90,90] or longitude outside [-180,180], the row's lat, lon and altitude
\* are all NaN, whatever later samples of the bucket hold; otherwise the three fields
\* are that first sample's. In BinToNETCDF.py they are that first sample's, unchecked.
C12_RangeCheck ==
    (pc \in {"smooth", "dew"} \/ ret = "DataFrame") =>
        \A t \in PositionKeys :
            /\ \E i \in Rows : out.time[i] = t
            /\ LET i == RowOf(t)
                   g == GPS_data[Earliest(t)]
               IN  IF variant = "baseline" /\ ~SampleInRange(g)
                   THEN IsNaN(out.lat[i]) /\ IsNaN(out.lon[i]) /\ IsNaN(out.altitude[i])
                   ELSE out.lat[i] = g[2] /\ out.lon[i] = g[3] /\ out.altitude[i] = g[4]

\* a table returned by baseline.py with a bucket whose first Position sample is out of
\* range and whose later sample is in range: the row is there with NaN position
\* fields, next to a row of another bucket that holds its first sample's fields
C12_Witness ==
    /\ variant = "baseline"
    /\ ret = "DataFrame"
    /\ \E t \in PositionKeys : \E k \in 1..Len(GPS_data) :
          /\ ~SampleInRange(GPS_data[Earliest(t)])
          /\ k > Earliest(t)
          /\ Floor(GPS_data[k][1]) = t
          /\ SampleInRange(GPS_data[k])
          /\ \E i \in Rows : out.time[i] = t /\ IsNaN(out.lat[i]) /\ IsNaN(out.altitude[i])
    /\ \E i \in Rows : IsFinite(out.lat[i]) /\ out.lat[i] = GPS_data[Earliest(out.time[i])][2]

====
